---- MODULE Spec2Model ----
(***************************************************************************)
(* Product catalog: the serverless handler of api/products.js over one     *)
(* blob object, and the client state provider of ProductContext.tsx.       *)
(*                                                                         *)
(* JavaScript values are encoded as strings: "undefined", "null", "NaN",   *)
(* number literals ("0", "5"), JS strings with the prefix "s:" ("s:Ring"), *)
(* and arrays ("[]", "[img]").  An object is a function from Fields to     *)
(* values in which "undefined" stands for a key that is not present (a     *)
(* JSON-transported object never holds an undefined value).                *)
(***************************************************************************)
EXTENDS Integers, Sequences, FiniteSets, TLC

\* ---------------------------------------------------------------- bounds
\* number of distinct values Date.now() takes in a run
MaxClock == 2
\* longest catalog a POST may still extend
MaxCatalog == 2
\* handler invocations that can exist at once
MaxInflight == 2
\* addProduct/updateProduct/deleteProduct calls one provider makes
MaxCalls == 2

\* ------------------------------------------------------------- JS values
JsUndef == "undefined"
JsNull == "null"
JsNaN == "NaN"
NumLits == {"0", "1", "2", "3", "5", "7", "9", "15", "799", "2299", "2799", "2899", "3299"}
ArrayLits == {"[]", "[img]"}
BLOB_NAME == "products.json"

Fields == {"id", "name", "price", "offerPrice", "images", "category", "description", "stock"}
NoFields == [f \in Fields |-> JsUndef]

\* JS truthiness (the ! operator of lines 48, 68, 82)
Truthy(v) == v \notin {JsUndef, JsNull, JsNaN, "0", "s:", "false"}

\* Number(v)
Number(v) ==
  CASE v \in NumLits -> v
    [] v = JsNull -> "0"
    [] v = "s:" -> "0"
    [] v = "s:7" -> "7"
    [] v = "s:2" -> "2"
    [] v = "[]" -> "0"
    [] OTHER -> JsNaN

\* String(v)
String(v) ==
  CASE v \in NumLits -> "s:" \o v
    [] v \in {JsUndef, JsNull, JsNaN} -> "s:" \o v
    [] v = "[]" -> "s:"
    [] v = "[img]" -> "s:img"
    [] OTHER -> v

\* Number.isFinite(v): true only of values of type number that are finite
NumberIsFinite(v) == v \in NumLits

\* Array.isArray(v) on a field value
ArrayIsArray(v) == v \in ArrayLits

\* the value of Date.now() when the run starts
ClockStart == 10

\* Date.now().toString()
DateNowToString(t) == "s:" \o ToString(t)

\* JSON.stringify of one object: NaN becomes null, undefined keys are dropped
JsonObject(o) == [f \in Fields |-> IF o[f] = JsNaN THEN JsNull ELSE o[f]]

\* JSON.stringify of an array of objects, as the decoded form of the text
JsonStringify(ps) == [kind |-> "array", items |-> [i \in 1..Len(ps) |-> JsonObject(ps[i])]]

\* a stored body that decodes to something that is not an array
NotArrayJson == [kind |-> "object", items |-> <<>>]

\* ------------------------------------------------------------ blob store
NoBlob == [exists |-> FALSE, body |-> NotArrayJson]
BlobOf(json) == [exists |-> TRUE, body |-> json]

ReadEnvs == {"ok", "listThrows", "fetchNotOk", "jsonThrows"}
WriteEnvs == {"ok", "throwsMessage", "throwsNoMessage"}

\* mutant: the res.ok test of line 14 is missing
readProductsFromBlob_OkNotTested(b, env) ==
  IF env = "listThrows" THEN <<>>
  ELSE IF ~b.exists THEN <<>>
  ELSE IF env = "jsonThrows" THEN <<>>
  ELSE IF b.body.kind = "array" THEN b.body.items ELSE <<>>

\* readProductsFromBlob: env is what list/fetch/json do on this call
readProductsFromBlob(b, env) ==
  IF env = "listThrows" THEN <<>>
  ELSE IF ~b.exists THEN <<>>
  ELSE IF env = "fetchNotOk" THEN <<>>
  ELSE IF env = "jsonThrows" THEN <<>>
  ELSE IF b.body.kind = "array" THEN b.body.items ELSE <<>>

\* mutant: only the last element of the array is uploaded
writeProductsToBlob_Delta(ps) ==
  BlobOf(JsonStringify(IF Len(ps) > 1 THEN <<ps[Len(ps)]>> ELSE ps))

\* writeProductsToBlob: the object that put() uploads under BLOB_NAME
writeProductsToBlob(ps) == BlobOf(JsonStringify(ps))

\* the catalog a fault-free read of the store yields
StoredCatalog(b) == readProductsFromBlob(b, "ok")

\* --------------------------------------------------------------- requests
\* req.body: truthy says whether req.body is truthy; f are its own fields;
\* updKind/upd describe body.updates
Body(truthy, f, updKind, upd) == [truthy |-> truthy, f |-> f, updKind |-> updKind, upd |-> upd]
NoBody == Body(FALSE, NoFields, JsUndef, NoFields)

FullProduct ==
  [NoFields EXCEPT !["name"] = "s:Ring", !["price"] = "5", !["category"] = "s:rings",
                   !["offerPrice"] = "3", !["images"] = "[img]",
                   !["description"] = "s:gold", !["stock"] = "2"]
OddProduct ==
  [NoFields EXCEPT !["name"] = "s:Stud", !["price"] = "s:7", !["category"] = "5",
                   !["offerPrice"] = "s:abc", !["stock"] = "s:2", !["id"] = "s:mine"]

PostFields ==
  { FullProduct, OddProduct,
    [FullProduct EXCEPT !["name"] = "s:"],
    [FullProduct EXCEPT !["price"] = "0"],
    [OddProduct EXCEPT !["price"] = JsUndef],
    [OddProduct EXCEPT !["category"] = JsNull] }
PostBodies == {NoBody} \cup {Body(TRUE, f, JsUndef, NoFields) : f \in PostFields}

ReqIds == {"1"} \cup {DateNowToString(t) : t \in ClockStart..(ClockStart + MaxClock - 1)}
WithId(id) == [NoFields EXCEPT !["id"] = id]

UpdateObjects ==
  { [NoFields EXCEPT !["price"] = "9"],
    [NoFields EXCEPT !["id"] = DateNowToString(ClockStart)] }
PutBodies ==
  {NoBody, Body(TRUE, WithId("s:"), "object", NoFields),
   Body(TRUE, WithId(DateNowToString(ClockStart)), "object", NoFields)}
  \cup {Body(TRUE, WithId(id), "object", u) : id \in ReqIds, u \in UpdateObjects}
  \cup {Body(TRUE, WithId(id), JsNull, NoFields) : id \in ReqIds}
  \cup {Body(TRUE, WithId(DateNowToString(ClockStart)), k, NoFields) : k \in {JsUndef, "string"}}
DeleteBodies ==
  {NoBody, Body(TRUE, WithId("s:"), JsUndef, NoFields)}
  \cup {Body(TRUE, WithId(id), JsUndef, NoFields) : id \in ReqIds}

Request(m, b) == [method |-> m, body |-> b]
Requests ==
  {Request(m, NoBody) : m \in {"OPTIONS", "GET", "PATCH"}}
  \cup {Request("POST", b) : b \in PostBodies}
  \cup {Request("PUT", b) : b \in PutBodies}
  \cup {Request("DELETE", b) : b \in DeleteBodies}

\* -------------------------------------------------------------- responses
NoRec == NoFields
Resp(kind, items, rec, error) == [kind |-> kind, items |-> items, rec |-> rec, error |-> error]
RespEmpty == Resp("empty", <<>>, NoRec, "")
RespArray(ps) == Resp("array", JsonStringify(ps).items, NoRec, "")
RespProduct(p) == Resp("product", <<>>, JsonObject(p), "")
RespOk == Resp("ok", <<>>, NoRec, "")
RespError(msg) == Resp("error", <<>>, NoRec, msg)

\* what a branch of the handler decides before the write: the status and body
\* it will send, whether it calls writeProductsToBlob, and with which array
Outcome(status, resp, writes, next) ==
  [status |-> status, resp |-> resp, writes |-> writes, next |-> next]

\* typeof body.updates
TypeOf(updKind) ==
  CASE updKind = JsUndef -> "undefined"
    [] updKind = "string" -> "string"
    [] OTHER -> "object"

\* products.findIndex(p => p.id === id), 0-based, -1 when there is none
FindIndex(ps, id) ==
  IF \E i \in 1..Len(ps) : ps[i]["id"] = id
  THEN (CHOOSE i \in 1..Len(ps) :
          /\ ps[i]["id"] = id
          /\ \A j \in 1..(i - 1) : ps[j]["id"] # id) - 1
  ELSE -1

\* mutant: the updates object replaces the record instead of being merged
Spread_Replaced(p, updKind, upd) ==
  [f \in Fields |-> IF updKind = "object" /\ f # "id" THEN upd[f] ELSE p[f]]

\* { ...p, ...updates }: spreading null or a key-less value adds nothing
Spread(p, updKind, upd) ==
  [f \in Fields |-> IF updKind = "object" /\ upd[f] # JsUndef THEN upd[f] ELSE p[f]]

\* products.filter(p => p.id !== id)
FilterOut(ps, id) == SelectSeq(ps, LAMBDA p : p["id"] # id)

\* req.body || {}
BodyOrEmpty(body) == IF body.truthy THEN body ELSE NoBody

\* the object literal of lines 51-60
NewProduct(b, t) ==
  [id |-> DateNowToString(t),
   name |-> b["name"],
   price |-> Number(b["price"]),
   offerPrice |-> IF Truthy(b["offerPrice"]) THEN Number(b["offerPrice"]) ELSE JsUndef,
   images |-> IF ArrayIsArray(b["images"]) THEN b["images"] ELSE "[]",
   category |-> String(b["category"]),
   description |-> String(IF Truthy(b["description"]) THEN b["description"] ELSE "s:"),
   stock |-> IF NumberIsFinite(b["stock"]) THEN Number(b["stock"]) ELSE "0"]

\* mutant: the price check is left out of the validation
PostRejected_NoPriceCheck(b) == ~Truthy(b["name"]) \/ ~Truthy(b["category"])

\* the POST validation of line 48
PostRejected(b) == ~Truthy(b["name"]) \/ ~Truthy(b["price"]) \/ ~Truthy(b["category"])

\* mutant: the created record is returned but not appended to the array written
HandlePost_NotAppended(body, products, t) ==
  LET b == BodyOrEmpty(body).f IN
  IF PostRejected(b)
  THEN Outcome(400, RespError("Missing required fields"), FALSE, products)
  ELSE Outcome(201, RespProduct(NewProduct(b, t)), TRUE, products)

HandlePost(body, products, t) ==
  LET b == BodyOrEmpty(body).f IN
  IF PostRejected(b)
  THEN Outcome(400, RespError("Missing required fields"), FALSE, products)
  ELSE LET newProduct == NewProduct(b, t) IN
       Outcome(201, RespProduct(newProduct), TRUE, Append(products, newProduct))

\* the PUT validation of line 68
PutRejected(id, updKind) == ~Truthy(id) \/ TypeOf(updKind) # "object"

HandlePut(body, products) ==
  LET b == BodyOrEmpty(body)
      id == b.f["id"]
      idx == FindIndex(products, id)
  IN
  IF PutRejected(id, b.updKind)
  THEN Outcome(400, RespError("id and updates are required"), FALSE, products)
  ELSE IF idx = -1
  THEN Outcome(404, RespError("Not found"), FALSE, products)
  ELSE LET updated == Spread(products[idx + 1], b.updKind, b.upd) IN
       Outcome(200, RespProduct(updated), TRUE, [products EXCEPT ![idx + 1] = updated])

HandleDelete(body, products) ==
  LET id == BodyOrEmpty(body).f["id"] IN
  IF ~Truthy(id)
  THEN Outcome(400, RespError("id is required"), FALSE, products)
  ELSE Outcome(200, RespOk, TRUE, FilterOut(products, id))

\* lines 46-88: the branch taken after the snapshot was read
HandleMutation(req, products, t) ==
  CASE req.method = "POST" -> HandlePost(req.body, products, t)
    [] req.method = "PUT" -> HandlePut(req.body, products)
    [] req.method = "DELETE" -> HandleDelete(req.body, products)
    [] OTHER -> Outcome(405, RespError("Method Not Allowed"), FALSE, products)

\* mutant: the exception's message is not passed on
CatchMessage_MessageDropped(wenv) == "Internal Error"

\* the catch block of lines 89-92
CatchMessage(wenv) == IF wenv = "throwsMessage" THEN "put failed" ELSE "Internal Error"

\* ----------------------------------------------------------- client data
\* ProductContext.tsx lines 19-62
initialProducts ==
  << [id |-> "s:1", name |-> "s:Silver Antique Set", price |-> "2899", offerPrice |-> "2299",
      images |-> "[img]", category |-> "s:necklaces",
      description |-> "s:Exquisite silver eternity featuring brilliant-cut jewels",
      stock |-> "5"],
     [id |-> "s:2", name |-> "s:Stone Necklace", price |-> "799", offerPrice |-> JsUndef,
      images |-> "[img]", category |-> "s:necklaces",
      description |-> "s:Classic blue necklace with cute Stones", stock |-> "15"],
     [id |-> "s:3", name |-> "s:Korean Stud", price |-> "3299", offerPrice |-> "2799",
      images |-> "[img]", category |-> "s:earrings",
      description |-> "s:Art deco inspired ruby ring with diamond accents", stock |-> "3"] >>

\* the two addresses a request can go to: the built-in one of lines 69 and 88
\* and the one config.json names
DefaultApiBase == "/api/products"
ConfiguredApiBase == "https://api.example/products"

\* the provider's state (lines 65-69, 73) before it is mounted
NotMounted ==
  [pc |-> "unmounted", products |-> initialProducts, loadedFromServer |-> FALSE,
   apiBase |-> DefaultApiBase, cancelled |-> FALSE, persistPending |-> FALSE]

\* localStorage entry 'nyrazari-products': absent, or a text that decodes to
\* an array, or a text JSON.parse throws on
NoStorage == [present |-> FALSE, text |-> NotArrayJson]
StorageOf(json) == [present |-> TRUE, text |-> json]
CorruptJson == [kind |-> "corrupt", items |-> <<>>]

\* a settled fetch(): it threw, or it resolved to a response
FetchOutcome(how, status, resp) == [how |-> how, status |-> status, resp |-> resp]
Threw == FetchOutcome("throws", 0, RespEmpty)
NotFetched == FetchOutcome("none", 0, RespEmpty)

\* res.ok
ResOk(o) == o.how = "response" /\ o.status >= 200 /\ o.status <= 299

\* an addProduct/updateProduct/deleteProduct call awaiting its fetch(): the
\* address and request of the fetch, and for addProduct its productData
Call(kind, to, req, data) == [kind |-> kind, to |-> to, req |-> req, data |-> data]
NoCall == Call("none", DefaultApiBase, Request("GET", NoBody), NoFields)

\* what the run has recorded about the client: the storage entry found at
\* mount, whether config.json named an apiBase, where the catalog fetch went
\* and how it settled, the calls started and the requests sent, and the kind
\* of the call that settled last with the res.ok it saw
NoHist ==
  [cached |-> NoStorage, configApiBase |-> FALSE, catalogTo |-> "none",
   seen |-> NotFetched, made |-> 0, requests |-> 0,
   settled |-> "none", settledOk |-> FALSE]

\* ------------------------------------------------------------------ state
VARIABLES
  blob,      \* the object stored under BLOB_NAME
  now,       \* the value Date.now() returns
  inflight,  \* per handler invocation: its request, the snapshot it read, its response
  created,   \* the record of the latest response when that was a 201, else NoRec
  log,       \* records returned by the POSTs of a run of valid POSTs from an empty store
  overlapped,\* an invocation read its snapshot while another had read and not yet responded
  client,    \* the provider: products, loadedFromServer, apiBase, position of load()
  storage,   \* the localStorage entry 'nyrazari-products'
  calls,     \* the fetch() calls of the client that have not settled
  hist       \* what the run has recorded about the client

svars == <<blob, now, inflight, created, log>>
cvars == <<client, storage, calls, hist>>
vars == <<blob, now, inflight, created, log, overlapped, client, storage, calls, hist>>

Slots == 1..MaxInflight

\* an invocation: pc is "idle" (none), "read" (snapshot read, line 40 or 44
\* passed) or "responded" (res.status(..).json(..) called, not yet returned)
Idle ==
  [pc |-> "idle", req |-> Request("GET", NoBody), products |-> <<>>,
   readOk |-> TRUE, pre |-> NoBlob, after |-> NoRec,
   status |-> 0, resp |-> RespEmpty, puts |-> 0, putArg |-> NoBlob, putOk |-> FALSE,
   thrown |-> "none"]

\* no provider is mounted and no invocation has overlapped another
NoClient ==
  /\ overlapped = FALSE
  /\ client = NotMounted
  /\ storage = NoStorage
  /\ calls = [s \in Slots |-> NoCall]
  /\ hist = NoHist

Init ==
  /\ blob \in {NoBlob, BlobOf(NotArrayJson), writeProductsToBlob(<<>>)}
  /\ now = ClockStart
  /\ inflight = [s \in Slots |-> Idle]
  /\ created = NoRec
  /\ log = [pure |-> (blob # BlobOf(NotArrayJson)), recs |-> <<>>]
  /\ NoClient

\* the clock advances between any two steps, or does not
Tick ==
  /\ now < ClockStart + MaxClock - 1
  /\ now' = now + 1
  /\ UNCHANGED <<blob, inflight, created, log, overlapped, cvars>>

\* the invocation r after it has sent its response
Completed(r, status, resp, puts, putArg, putOk) ==
  [r EXCEPT !.pc = "responded", !.status = status, !.resp = resp,
            !.puts = puts, !.putArg = putArg, !.putOk = putOk]

\* the run stays a run of valid POSTs from an empty store only through
\* created records and fault-free GETs
LogAfter(c) ==
  IF log.pure /\ c.req.method = "POST" /\ c.status = 201 /\ c.readOk
  THEN [pure |-> TRUE, recs |-> Append(log.recs, c.resp.rec)]
  ELSE IF log.pure /\ c.req.method = "GET" /\ c.readOk
  THEN log
  ELSE [pure |-> FALSE, recs |-> <<>>]

\* the record a 201 response carries
CreatedBy(c) == IF c.req.method = "POST" /\ c.status = 201 THEN c.resp.rec ELSE NoRec

\* a new invocation may start only when the handler runs requests one at a time
Serial == \A s \in Slots : inflight[s].pc = "idle"

FreeSlot(s) ==
  /\ inflight[s].pc = "idle"
  /\ \A u \in Slots : u < s => inflight[u].pc # "idle"

\* for a GET, the record a POST created in the response just before it
JustCreated(req) == IF req.method = "GET" THEN created ELSE NoRec

\* line 36: OPTIONS is answered before anything is read
Options(s, req) ==
  /\ Serial
  /\ FreeSlot(s)
  /\ req.method = "OPTIONS"
  /\ LET c == Completed([Idle EXCEPT !.req = req, !.pre = blob], 200, RespEmpty, 0, NoBlob, FALSE) IN
       /\ inflight' = [inflight EXCEPT ![s] = c]
       /\ created' = CreatedBy(c)
       /\ log' = LogAfter(c)
  /\ UNCHANGED <<blob, now, overlapped, cvars>>

\* the invocation once readProductsFromBlob has returned
SnapshotTaken(req, env) ==
  [Idle EXCEPT !.pc = "read", !.req = req,
               !.products = readProductsFromBlob(blob, env),
               !.readOk = (env = "ok"), !.pre = blob, !.after = JustCreated(req)]

\* lines 40 and 44: the invocation starts and awaits readProductsFromBlob
ReadSnapshot(s, req, env) ==
  /\ Serial
  /\ FreeSlot(s)
  /\ req.method # "OPTIONS"
  /\ req.method = "POST" => Len(StoredCatalog(blob)) < MaxCatalog
  /\ inflight' = [inflight EXCEPT ![s] = SnapshotTaken(req, env)]
  /\ UNCHANGED <<blob, now, created, log, overlapped, cvars>>

\* lines 39-42
Get(s) ==
  /\ inflight[s].pc = "read"
  /\ inflight[s].req.method = "GET"
  /\ LET c == Completed(inflight[s], 200, RespArray(inflight[s].products), 0, NoBlob, FALSE) IN
       /\ inflight' = [inflight EXCEPT ![s] = c]
       /\ created' = CreatedBy(c)
       /\ log' = LogAfter(c)
  /\ UNCHANGED <<blob, now, overlapped, cvars>>

\* lines 46-92: validate, compute the next array, await the write, respond;
\* wenv is what put() does on this call
Mutate(s, wenv) ==
  /\ inflight[s].pc = "read"
  /\ inflight[s].req.method # "GET"
  /\ LET r == inflight[s]
         o == HandleMutation(r.req, r.products, now)
         c == IF ~o.writes
              THEN Completed(r, o.status, o.resp, 0, NoBlob, FALSE)
              ELSE IF wenv = "ok"
              THEN Completed(r, o.status, o.resp, 1, writeProductsToBlob(o.next), TRUE)
              ELSE [Completed(r, 500, RespError(CatchMessage(wenv)), 1,
                              writeProductsToBlob(o.next), FALSE)
                      EXCEPT !.thrown = wenv]
     IN
       /\ ~o.writes => wenv = "ok"
       /\ blob' = IF c.putOk THEN c.putArg ELSE blob
       /\ inflight' = [inflight EXCEPT ![s] = c]
       /\ created' = CreatedBy(c)
       /\ log' = LogAfter(c)
  /\ UNCHANGED <<now, overlapped, cvars>>

\* the return statement of lines 36-91: the invocation ends
Return(s) ==
  /\ inflight[s].pc = "responded"
  /\ inflight' = [inflight EXCEPT ![s] = Idle]
  /\ UNCHANGED <<blob, now, created, log, overlapped, cvars>>

Next ==
  \/ Tick
  \/ \E s \in Slots, req \in Requests : Options(s, req)
  \/ \E s \in Slots, req \in Requests, env \in ReadEnvs : ReadSnapshot(s, req, env)
  \/ \E s \in Slots : Get(s)
  \/ \E s \in Slots, wenv \in WriteEnvs : Mutate(s, wenv)
  \/ \E s \in Slots : Return(s)

Spec == Init /\ [][Next]_vars

\* ------------------------------------------------- concurrent invocations
\* mutating requests that succeed when handled alone: a valid POST and a PUT
ConcurrentRequests ==
  { Request("POST", Body(TRUE, FullProduct, JsUndef, NoFields)),
    Request("PUT", Body(TRUE, WithId(DateNowToString(ClockStart)), "object",
                        [NoFields EXCEPT !["price"] = "9"])) }

Mutating(req) == req.method \in {"POST", "PUT", "DELETE"}

\* lines 40 and 44 with no lock around the handler: an invocation starts
\* whatever the others are doing (blob reads and writes all succeed); a burst
\* holds at most MaxInflight invocations, each kept in its slot once it has
\* responded
ConcurrentRead(s, req) ==
  /\ FreeSlot(s)
  /\ req.method = "POST" => Len(StoredCatalog(blob)) < MaxCatalog
  /\ inflight' = [inflight EXCEPT ![s] = SnapshotTaken(req, "ok")]
  /\ overlapped' =
       (overlapped \/ (Mutating(req) /\ \E u \in Slots :
                          inflight[u].pc = "read" /\ Mutating(inflight[u].req)))
  /\ UNCHANGED <<blob, now, created, log, cvars>>

ConcurrentNext ==
  \/ Tick
  \/ \E s \in Slots, req \in ConcurrentRequests : ConcurrentRead(s, req)
  \/ \E s \in Slots : Mutate(s, "ok")

ConcurrentSpec == Init /\ [][ConcurrentNext]_vars

\* ----------------------------------------------------------------- client
\* mutant: only the first product is stored
Persisted_FirstOnly(ps) == StorageOf(JsonStringify(IF Len(ps) > 1 THEN <<ps[1]>> ELSE ps))

\* line 119: the text the persist effect stores
Persisted(ps) == StorageOf(JsonStringify(ps))

\* JSON.parse(stored) of line 104, initialProducts when it throws (line 106)
Restored(st) == IF st.text.kind = "corrupt" THEN initialProducts ELSE st.text.items

\* what the pages pass to addProduct, updateProduct and deleteProduct
AddData == {FullProduct}
ClientIds == {DateNowToString(ClockStart)}
ClientUpdates == {[NoFields EXCEPT !["price"] = "9"]}

\* a record the service created earlier, and a list cached by an earlier session
ServerRecord == JsonObject(NewProduct(FullProduct, ClockStart))
CachedList == <<ServerRecord>>

\* how fetch('/config.json') settles (lines 78-85)
ConfigOutcomes == {"throws", "notOk", "noApiBase", "emptyApiBase", "apiBase"}

\* how the catalog fetch of line 88 settles
CatalogOutcomes ==
  { Threw,
    FetchOutcome("response", 500, RespError("Internal Error")),
    FetchOutcome("response", 200, RespOk),
    FetchOutcome("response", 200, RespArray(<<>>)),
    FetchOutcome("response", 200, RespArray(<<ServerRecord>>)) }

\* how the fetch of addProduct settles: the handler's POST responses
AddOutcomes(c) ==
  { Threw,
    FetchOutcome("response", 201, RespProduct(NewProduct(c.req.body.f, now))),
    FetchOutcome("response", 400, RespError("Missing required fields")),
    FetchOutcome("response", 500, RespError("Internal Error")) }

\* how the fetch of updateProduct or deleteProduct settles
WriteOutcomes ==
  { Threw,
    FetchOutcome("response", 200, RespOk),
    FetchOutcome("response", 400, RespError("id and updates are required")),
    FetchOutcome("response", 404, RespError("Not found")),
    FetchOutcome("response", 500, RespError("Internal Error")) }

SettleOutcomes(c) == IF c.kind = "add" THEN AddOutcomes(c) ELSE WriteOutcomes

\* the provider is mounted and its effects have run
Ready == client.pc # "unmounted" /\ ~client.cancelled /\ ~client.persistPending

\* calls take the lowest free slot
FreeCall(k) ==
  /\ calls[k].kind = "none"
  /\ \A j \in Slots : j < k => calls[j].kind # "none"
  /\ hist.made < MaxCalls

\* setProducts with a new array: the persist effect is queued
SetProducts(ps) == [client EXCEPT !.products = ps, !.persistPending = TRUE]

\* first render: load() of lines 75-111 runs up to its first await, then the
\* persist effect of lines 118-120 stores the initial products
Mount ==
  /\ client.pc = "unmounted"
  /\ client' = [client EXCEPT !.pc = "config"]
  /\ storage' = Persisted(client.products)
  /\ hist' = [hist EXCEPT !.cached = storage]
  /\ UNCHANGED <<svars, overlapped, calls>>

\* lines 112-114: the cleanup of the load effect, while load() is running
Unmount ==
  /\ Ready
  /\ client.pc \in {"config", "catalog"}
  /\ \A k \in Slots : calls[k].kind = "none"
  /\ client' = [client EXCEPT !.cancelled = TRUE]
  /\ UNCHANGED <<svars, overlapped, storage, calls, hist>>

\* lines 118-120: the persist effect runs after a render that changed products
PersistEffect ==
  /\ client.persistPending
  /\ storage' = Persisted(client.products)
  /\ client' = [client EXCEPT !.persistPending = FALSE]
  /\ UNCHANGED <<svars, overlapped, calls, hist>>

\* lines 78-88: config.json settles, then the catalog fetch is sent
ConfigSettles(o) ==
  /\ client.pc = "config"
  /\ ~client.persistPending
  /\ client' = [client EXCEPT !.pc = "catalog",
                              !.apiBase = IF o = "apiBase" THEN ConfiguredApiBase ELSE @]
  /\ hist' = [hist EXCEPT !.configApiBase = (o = "apiBase"), !.catalogTo = DefaultApiBase]
  /\ UNCHANGED <<svars, overlapped, storage, calls>>

\* mutant: a one-record array is not taken over
Reconciles_LongerThanOne(o, cancelled) ==
  ResOk(o) /\ ~cancelled /\ o.resp.kind = "array" /\ Len(o.resp.items) > 1

\* lines 89-91: res.ok, !cancelled, Array.isArray(data) and data.length
Reconciles(o, cancelled) ==
  ResOk(o) /\ ~cancelled /\ o.resp.kind = "array" /\ Len(o.resp.items) > 0

\* lines 89-108: the catalog fetch settles; the server's array is taken over,
\* or else the stored entry is read and restored
CatalogSettles(o) ==
  /\ client.pc = "catalog"
  /\ ~client.persistPending
  /\ client' =
       IF Reconciles(o, client.cancelled)
       THEN [SetProducts(o.resp.items) EXCEPT !.pc = "done", !.loadedFromServer = TRUE]
       ELSE IF ~client.cancelled /\ storage.present
       THEN [SetProducts(Restored(storage)) EXCEPT
               !.pc = "done",
               !.persistPending = (storage.text.kind # "corrupt"
                                   \/ client.products # initialProducts)]
       ELSE [client EXCEPT !.pc = "done"]
  /\ hist' = [hist EXCEPT !.seen = o]
  /\ UNCHANGED <<svars, overlapped, storage, calls>>

\* lines 125-129: addProduct sends its POST and awaits it
StartAdd(k, data) ==
  /\ Ready
  /\ FreeCall(k)
  /\ calls' = [calls EXCEPT ![k] =
       Call("add", client.apiBase,
            Request("POST", Body(TRUE, JsonObject(data), JsUndef, NoFields)), data)]
  /\ hist' = [hist EXCEPT !.made = @ + 1, !.requests = @ + 1]
  /\ UNCHANGED <<svars, overlapped, client, storage>>

\* prev.map(p => (p.id === id ? { ...p, ...updates } : p))
MapMerged(ps, id, updates) ==
  [i \in 1..Len(ps) |-> IF ps[i]["id"] = id THEN Spread(ps[i], "object", updates) ELSE ps[i]]

\* lines 142-148: updateProduct merges locally, then sends its PUT
StartUpdate(k, id, updates) ==
  /\ Ready
  /\ FreeCall(k)
  /\ client' = SetProducts(MapMerged(client.products, id, updates))
  /\ calls' = [calls EXCEPT ![k] =
       Call("update", client.apiBase,
            Request("PUT", Body(TRUE, WithId(id), "object", JsonObject(updates))), NoFields)]
  /\ hist' = [hist EXCEPT !.made = @ + 1, !.requests = @ + 1]
  /\ UNCHANGED <<svars, overlapped, storage>>

\* lines 153-159: deleteProduct filters locally, then sends its DELETE
StartDelete(k, id) ==
  /\ Ready
  /\ FreeCall(k)
  /\ client' = SetProducts(FilterOut(client.products, id))
  /\ calls' = [calls EXCEPT ![k] =
       Call("delete", client.apiBase,
            Request("DELETE", Body(TRUE, WithId(id), JsUndef, NoFields)), NoFields)]
  /\ hist' = [hist EXCEPT !.made = @ + 1, !.requests = @ + 1]
  /\ UNCHANGED <<svars, overlapped, storage>>

\* mutant: the fallback record keeps no id
LocalProduct_NoId(data, t) == data

\* line 137: { ...productData, id: Date.now().toString() }
LocalProduct(data, t) == [data EXCEPT !["id"] = DateNowToString(t)]

\* mutant: a settled PUT or DELETE that failed restores the initial products
AfterSettle_RolledBack(c, o, ps, t) ==
  IF c.kind = "add"
  THEN Append(ps, IF ResOk(o) THEN o.resp.rec ELSE LocalProduct(c.data, t))
  ELSE IF ResOk(o) THEN ps ELSE initialProducts

\* lines 130-138, 149 and 160: products once the fetch of call c has settled
AfterSettle(c, o, ps, t) ==
  IF c.kind = "add"
  THEN Append(ps, IF ResOk(o) THEN o.resp.rec ELSE LocalProduct(c.data, t))
  ELSE ps

\* the continuation of call k after its await
Settled(k, o) ==
  /\ calls[k].kind # "none"
  /\ ~client.persistPending
  /\ client' = IF AfterSettle(calls[k], o, client.products, now) = client.products
               THEN client
               ELSE SetProducts(AfterSettle(calls[k], o, client.products, now))
  /\ calls' = [calls EXCEPT ![k] = NoCall]
  /\ hist' = [hist EXCEPT !.settled = calls[k].kind, !.settledOk = ResOk(o)]
  /\ UNCHANGED storage

\* the fetch of call k settles in one of the ways the network allows
Settle(k, o) ==
  /\ o \in SettleOutcomes(calls[k])
  /\ Settled(k, o)
  /\ UNCHANGED <<svars, overlapped>>

\* the browser's clock is read by line 137 only: it matters while an
\* addProduct awaits its fetch
ClientTick ==
  /\ \E k \in Slots : calls[k].kind = "add"
  /\ Tick

\* a browser whose storage is empty, corrupt or holds a cached list
ClientInit ==
  /\ blob = NoBlob
  /\ now = ClockStart
  /\ inflight = [s \in Slots |-> Idle]
  /\ created = NoRec
  /\ log = [pure |-> TRUE, recs |-> <<>>]
  /\ overlapped = FALSE
  /\ client = NotMounted
  /\ storage \in {NoStorage, StorageOf(CorruptJson), Persisted(CachedList)}
  /\ calls = [s \in Slots |-> NoCall]
  /\ hist = NoHist

ClientNext ==
  \/ ClientTick
  \/ Mount
  \/ Unmount
  \/ PersistEffect
  \/ \E o \in ConfigOutcomes : ConfigSettles(o)
  \/ \E o \in CatalogOutcomes : CatalogSettles(o)
  \/ \E k \in Slots, data \in AddData : StartAdd(k, data)
  \/ \E k \in Slots, id \in ClientIds, u \in ClientUpdates : StartUpdate(k, id, u)
  \/ \E k \in Slots, id \in ClientIds : StartDelete(k, id)
  \/ \E k \in Slots : \E o \in SettleOutcomes(calls[k]) : Settle(k, o)

ClientSpec == ClientInit /\ [][ClientNext]_vars

\* ------------------------------------------- one client and the service
\* the handler starts on the request of call k and reads its snapshot
\* (lines 44-46), whatever the invocations of the other calls are doing
Serve(k) ==
  /\ calls[k].kind # "none"
  /\ inflight[k].pc = "idle"
  /\ calls[k].req.method = "POST" => Len(StoredCatalog(blob)) < MaxCatalog
  /\ inflight' = [inflight EXCEPT ![k] = SnapshotTaken(calls[k].req, "ok")]
  /\ overlapped' = (overlapped \/ \E u \in Slots : inflight[u].pc = "read")
  /\ UNCHANGED <<blob, now, created, log, cvars>>

\* the response of the invocation reaches the await of call k
Deliver(k) ==
  /\ inflight[k].pc = "responded"
  /\ Settled(k, FetchOutcome("response", inflight[k].status, inflight[k].resp))
  /\ inflight' = [inflight EXCEPT ![k] = Idle]
  /\ UNCHANGED <<blob, now, created, log, overlapped>>

\* the catalog fetch is answered by the handler's GET branch (lines 39-42)
CatalogServed ==
  CatalogSettles(FetchOutcome("response", 200, RespArray(readProductsFromBlob(blob, "ok"))))

\* a store that holds one record, and a browser with nothing stored
SystemInit ==
  /\ blob = writeProductsToBlob(<<NewProduct(FullProduct, ClockStart)>>)
  /\ now = ClockStart
  /\ inflight = [s \in Slots |-> Idle]
  /\ created = NoRec
  /\ log = [pure |-> FALSE, recs |-> <<>>]
  /\ NoClient

\* every request reaches the service, and every blob read and write succeeds
SystemNext ==
  \/ ClientTick
  \/ Mount
  \/ PersistEffect
  \/ \E o \in {"notOk", "noApiBase"} : ConfigSettles(o)
  \/ CatalogServed
  \/ \E k \in Slots, data \in AddData : client.loadedFromServer /\ StartAdd(k, data)
  \/ \E k \in Slots, id \in ClientIds, u \in ClientUpdates :
       client.loadedFromServer /\ StartUpdate(k, id, u)
  \/ \E k \in Slots, id \in ClientIds : client.loadedFromServer /\ StartDelete(k, id)
  \/ \E k \in Slots : Serve(k)
  \/ \E k \in Slots : Mutate(k, "ok")
  \/ \E k \in Slots : Deliver(k)

SystemSpec == SystemInit /\ [][SystemNext]_vars

\* the invocation that has responded and not yet returned, as the claims
\* read it: its request, what it read, what it wrote and what it answered
Responded == {s \in Slots : inflight[s].pc = "responded"}
last ==
  LET r == IF Responded = {} THEN Idle ELSE inflight[CHOOSE s \in Responded : TRUE] IN
  [method |-> IF Responded = {} THEN "none" ELSE r.req.method,
   body |-> r.req.body, status |-> r.status, resp |-> r.resp, readOk |-> r.readOk,
   products |-> r.products, pre |-> r.pre, puts |-> r.puts, putArg |-> r.putArg,
   putOk |-> r.putOk, after |-> r.after, thrown |-> r.thrown]

\* ----------------------------------------------------------------- claims
\* a value of JS type string, and one that is not empty
IsString(v) == v \notin NumLits \cup ArrayLits \cup {JsUndef, JsNull, JsNaN}
NonEmptyString(v) == IsString(v) /\ v # "s:"

\* the body has truthy name, price and category
ValidPostBody(body) ==
  /\ body.truthy
  /\ \A f \in {"name", "price", "category"} : Truthy(body.f[f])

\* the latest request attempted its write and put() threw
WriteFailed == last.puts = 1 /\ ~last.putOk

Contains(ps, p) == \E i \in 1..Len(ps) : ps[i] = p

\* C1: a valid POST handled alone, with its blob read and write succeeding,
\* is answered 201 with a record whose id is a non-empty string, and the GET
\* issued right after it (its read succeeding) returns a catalog holding
\* that record.
C1_ValidPostCreatesAndIsListed ==
  /\ (last.method = "POST" /\ ValidPostBody(last.body) /\ last.readOk /\ ~WriteFailed)
       => /\ last.status = 201
          /\ last.resp.kind = "product"
          /\ NonEmptyString(last.resp.rec["id"])
          /\ Contains(StoredCatalog(blob), last.resp.rec)
  /\ (last.method = "GET" /\ last.readOk /\ last.after # NoRec)
       => /\ last.status = 200
          /\ Contains(last.resp.items, last.after)

C1_Witness ==
  /\ last.method = "GET"
  /\ last.readOk
  /\ last.after # NoRec
  /\ Len(last.resp.items) = 2
  /\ last.resp.items[2] = last.after

\* C2: a POST whose body lacks name, price or category, or gives one of them
\* a falsy value, is answered 400 and performs no blob write: the stored
\* object after the request is the one before it.
C2_InvalidPostRejectedWithoutWrite ==
  (last.method = "POST" /\ ~ValidPostBody(last.body))
    => /\ last.status = 400
       /\ last.puts = 0
       /\ blob = last.pre

C2_Witness ==
  /\ last.method = "POST"
  /\ last.body.truthy
  /\ last.body.f["price"] = "0"
  /\ last.status = 400
  /\ Len(StoredCatalog(blob)) = 1

\* the request of the latest response, and the catalogs around it
LastId == BodyOrEmpty(last.body).f["id"]
Before == StoredCatalog(last.pre)
After == StoredCatalog(blob)
Matches(ps, id) == \E i \in 1..Len(ps) : ps[i]["id"] = id

\* a PUT {id, updates} with updates an object and id matching a stored record
PutOfStoredId ==
  /\ last.method = "PUT"
  /\ last.body.truthy
  /\ last.body.updKind = "object"
  /\ Matches(Before, LastId)

\* the response is 200 with the merged record, which took the place of the
\* first record with that id; nothing else in the catalog changed
MergedInPlace ==
  LET k == FindIndex(Before, LastId) + 1 IN
  /\ last.status = 200
  /\ Len(After) = Len(Before)
  /\ \A j \in 1..Len(Before) : j # k => After[j] = Before[j]
  /\ \A f \in Fields :
       After[k][f] = IF last.body.upd[f] # JsUndef THEN last.body.upd[f] ELSE Before[k][f]
  /\ last.resp.kind = "product"
  /\ last.resp.rec = After[k]

\* C3 as stated: every PUT {id, updates} whose id matches a stored record is
\* answered 200 with the merged record, only the fields named in updates
\* being overwritten and the rest of the catalog unchanged.
C3_Original_PutAlwaysMerges == PutOfStoredId => MergedInPlace

\* C3 amended: such a PUT merges in place and is answered 200 when its
\* snapshot read returns the stored catalog and the blob write succeeds; when
\* the snapshot read fails it is answered 404 and when the write throws it is
\* answered 500, the stored object being unchanged in both cases.
C3_PutMergesWhenReadAndWriteSucceed ==
  PutOfStoredId =>
    /\ (last.readOk /\ ~WriteFailed) => MergedInPlace
    /\ ~last.readOk => (last.status = 404 /\ last.puts = 0 /\ blob = last.pre)
    /\ (last.readOk /\ WriteFailed) => (last.status = 500 /\ blob = last.pre)

C3_Witness ==
  /\ PutOfStoredId
  /\ last.readOk
  /\ last.status = 200
  /\ last.body.upd["price"] = "9"
  /\ Len(Before) = 2
  /\ FindIndex(Before, LastId) = 1
  /\ Before[2]["price"] # "9"
  /\ After[2]["name"] = Before[2]["name"]

\* C4: a PUT that does not supply both an id and an updates object (updates
\* null, not an object, or absent) is answered 400; a PUT whose id matches no
\* stored record is answered 404; neither writes and the stored object is
\* unchanged.
C4_Original_PutRejections ==
  LET supplied == /\ last.body.truthy
                  /\ Truthy(LastId)
                  /\ last.body.updKind = "object"
  IN
  /\ (last.method = "PUT" /\ ~supplied)
       => (last.status = 400 /\ last.puts = 0 /\ blob = last.pre)
  /\ (last.method = "PUT" /\ supplied /\ ~Matches(Before, LastId))
       => (last.status = 404 /\ last.puts = 0 /\ blob = last.pre)

\* C5: a DELETE whose id matches no stored record is answered 200 {ok:true}
\* and leaves the stored catalog as it was; a DELETE whose id matches removes
\* every record with that id and keeps the others in their order.  (Stated
\* for the DELETEs whose put() does not throw.)
C5_Original_DeleteRemovesOnlyMatches ==
  (last.method = "DELETE" /\ Truthy(LastId) /\ ~WriteFailed) =>
    /\ last.status = 200
    /\ last.resp.kind = "ok"
    /\ ~Matches(Before, LastId) => After = Before
    /\ After = SelectSeq(Before, LAMBDA p : p["id"] # LastId)

\* C6: GET is always answered 200 with an array and never writes; the array
\* is empty when no blob exists, when listing, fetching or decoding fails, or
\* when the decoded value is not an array, and is the stored catalog otherwise.
C6_GetReturnsCatalogOrEmpty ==
  last.method = "GET" =>
    /\ last.status = 200
    /\ last.resp.kind = "array"
    /\ last.puts = 0
    /\ blob = last.pre
    /\ last.resp.items =
         IF ~last.pre.exists \/ ~last.readOk \/ last.pre.body.kind # "array"
         THEN <<>>
         ELSE last.pre.body.items

C6_Witness ==
  /\ last.method = "GET"
  /\ ~last.readOk
  /\ last.pre.exists
  /\ last.pre.body.kind = "array"
  /\ Len(last.pre.body.items) = 2
  /\ last.resp.items = <<>>

UniqueIds(ps) == \A i, j \in 1..Len(ps) : ps[i]["id"] = ps[j]["id"] => i = j

\* C7: after any sequence of committed POST, PUT and DELETE writes that
\* starts from an empty catalog, no two records of the stored catalog have
\* the same id.
C7_Original_StoredIdsUnique == UniqueIds(After)

\* C8: whatever fields updates contains, an id field included, the id of the
\* record a PUT targets is after the request what it was before it.
C8_Original_PutKeepsId ==
  (last.method = "PUT" /\ last.status = 200) =>
    LET k == FindIndex(Before, LastId) + 1 IN
    /\ After[k]["id"] = Before[k]["id"]
    /\ last.resp.rec["id"] = LastId

\* the latest request passed validation and, for a PUT, found its id
Accepted == last.method \in {"POST", "PUT", "DELETE"} /\ last.status \notin {400, 404}

\* the array handed to put() is the whole next catalog: the snapshot with
\* the record appended, or with one position replaced, or without the records
\* of the deleted id
WroteWholeCatalog ==
  LET w == last.putArg.body.items
      snap == last.products
  IN
  /\ last.putArg.exists
  /\ last.putArg.body.kind = "array"
  /\ last.method = "POST" =>
       /\ Len(w) = Len(snap) + 1
       /\ SubSeq(w, 1, Len(snap)) = snap
       /\ w[Len(w)]["name"] = last.body.f["name"]
  /\ last.method = "PUT" =>
       /\ Len(w) = Len(snap)
       /\ \A j \in 1..Len(snap) : j # FindIndex(snap, LastId) + 1 => w[j] = snap[j]
       /\ w[FindIndex(snap, LastId) + 1]["name"] = snap[FindIndex(snap, LastId) + 1]["name"]
  /\ last.method = "DELETE" => w = SelectSeq(snap, LAMBDA p : p["id"] # LastId)

\* C9: an accepted POST, PUT or DELETE performs exactly one blob write, of
\* the entire next catalog; GET, OPTIONS, unsupported methods and requests
\* answered 400 or 404 perform none.
C9_OneWholeWritePerAcceptedMutation ==
  /\ Accepted =>
       /\ last.puts = 1
       /\ WroteWholeCatalog
       /\ last.readOk => last.products = Before
       /\ blob = IF last.putOk THEN last.putArg ELSE last.pre
  /\ (last.method # "none" /\ ~Accepted) =>
       /\ last.puts = 0
       /\ blob = last.pre

C9_Witness ==
  /\ Accepted
  /\ last.method = "POST"
  /\ last.putOk
  /\ Len(last.products) = 1
  /\ Len(After) = 2

\* C10: from an empty store, after n valid POSTs handled one after another
\* with all reads and writes succeeding, a GET returns exactly the n records
\* the POSTs returned, in POST order, with pairwise distinct ids.
C10_Original_RoundTrip ==
  (last.method = "GET" /\ last.readOk /\ log.pure) =>
    /\ last.resp.items = log.recs
    /\ UniqueIds(last.resp.items)

\* C18: a method other than OPTIONS, GET, POST, PUT, DELETE is answered 405;
\* when put() throws during an accepted POST, PUT or DELETE the answer is 500
\* with the exception's message, or 'Internal Error' when it has none, and
\* the stored object is unchanged; an invocation that has answered answers
\* nothing else before it returns.
C18_ErrorOutcomes ==
  /\ last.method = "PATCH" => (last.status = 405 /\ last.puts = 0 /\ blob = last.pre)
  /\ last.thrown = "throwsMessage" =>
       /\ last.status = 500
       /\ last.resp = RespError("put failed")
       /\ blob = last.pre
  /\ last.thrown = "throwsNoMessage" =>
       /\ last.status = 500
       /\ last.resp = RespError("Internal Error")
       /\ blob = last.pre
  /\ WriteFailed <=> last.thrown # "none"
  /\ \A s \in Slots :
       /\ inflight[s].pc = "responded" => inflight[s].status \in {200, 201, 400, 404, 405, 500}
       /\ inflight[s].pc # "responded" => inflight[s].status = 0

C18_Witness ==
  /\ last.method = "DELETE"
  /\ last.thrown = "throwsNoMessage"
  /\ Len(Before) = 2
  /\ Matches(Before, LastId)

\* the records of ps other than those with the given id, in order
Others(ps, id) == SelectSeq(ps, LAMBDA p : p["id"] # id)

\* a occurs in b, in order, possibly with other elements in between
RECURSIVE IsSubsequence(_, _)
IsSubsequence(a, b) ==
  IF a = <<>> THEN TRUE
  ELSE IF b = <<>> THEN FALSE
  ELSE IF Head(a) = Head(b) THEN IsSubsequence(Tail(a), Tail(b))
  ELSE IsSubsequence(a, Tail(b))

\* C19: after a POST, PUT or DELETE answered with a success status, every
\* record that was stored before and is not the PUT/DELETE target is still
\* stored, unchanged and in the same relative order, also when the blob read
\* inside the request failed.
C19_Original_SuccessKeepsOtherRecords ==
  (last.method \in {"POST", "PUT", "DELETE"} /\ last.status \in {200, 201}) =>
    LET target == IF last.method = "POST" THEN JsUndef ELSE LastId IN
    IsSubsequence(Others(Before, target), After)

\* C16: when two mutating invocations both read before either writes, a
\* state is reached in which both were answered with success and the store
\* holds the effect of the later writer only; as long as no invocation
\* overlaps another, every write starts from the stored object and the store
\* holds every record a POST was answered with.
C16_LostUpdateOnlyWhenOverlapped ==
  ~overlapped =>
    /\ \A s \in Slots :
         (inflight[s].pc = "read" /\ Mutating(inflight[s].req)) => inflight[s].pre = blob
    /\ log.pure => StoredCatalog(blob) = log.recs

C16_Witness ==
  /\ overlapped
  /\ log.pure
  /\ Len(log.recs) = 2
  /\ \A s \in {1, 2} : inflight[s].pc = "responded" /\ inflight[s].status = 201
  /\ Len(StoredCatalog(blob)) = 1
  /\ ~Contains(StoredCatalog(blob), log.recs[1])

\* ---------------------------------------------------- claims on the client
\* the step in which load() gets the catalog fetch's result
CatalogStep == client.pc = "catalog" /\ client'.pc = "done"

\* the catalog fetch resolved to a successful response that decodes to an array
SawArray(h) == ResOk(h.seen) /\ h.seen.resp.kind = "array"

\* the step in which call k of the given kind starts, and in which it settles
Starts(k, kind) == calls[k].kind = "none" /\ calls'[k].kind = kind
Settles(k, kind) == calls[k].kind = kind /\ calls'[k].kind = "none"

\* C11 as stated: a successful catalog response that decodes to an array of
\* any length, the empty one included, replaces products and sets
\* loadedFromServer, unless the provider was unmounted.
C11_Original_AnyArrayReconciles ==
  [][(CatalogStep /\ SawArray(hist') /\ ~client.cancelled) =>
       (client'.products = hist'.seen.resp.items /\ client'.loadedFromServer)]_vars

\* C11: a successful catalog response that decodes to a non-empty array
\* replaces products and sets loadedFromServer, unless the provider was
\* unmounted; an empty array is not taken over: loadedFromServer stays false
\* and products becomes what the stored entry restores.
C11_NonEmptyArrayReconciles ==
  [][(CatalogStep /\ SawArray(hist') /\ ~client.cancelled) =>
       IF Len(hist'.seen.resp.items) > 0
       THEN client'.products = hist'.seen.resp.items /\ client'.loadedFromServer
       ELSE /\ ~client'.loadedFromServer
            /\ client'.products = IF storage.present THEN Restored(storage)
                                  ELSE client.products]_vars

C11_Witness ==
  /\ client.pc = "done"
  /\ ~client.cancelled
  /\ hist.seen = FetchOutcome("response", 200, RespArray(<<ServerRecord>>))
  /\ hist.made = 0
  /\ client.loadedFromServer
  /\ client.products = <<ServerRecord>>

\* C12: when the catalog fetch fails, products ends as the list the storage
\* entry held when the session started, or as the bundled catalog when that
\* entry was absent or corrupt.
C12_Original_StartupFallback ==
  (client.pc = "done" /\ ~client.cancelled /\ ~ResOk(hist.seen) /\ hist.made = 0) =>
    client.products = IF hist.cached.present /\ hist.cached.text.kind = "array"
                      THEN hist.cached.text.items
                      ELSE initialProducts

\* C13: when the fetch of addProduct settles, exactly one record is appended
\* to products and the others stay as they are; the record is the one the
\* server returned when the response was successful, and otherwise the input
\* with a non-empty id made from the clock.
C13_AddAppendsOneRecord ==
  [][\A k \in Slots : Settles(k, "add") =>
       /\ Len(client'.products) = Len(client.products) + 1
       /\ SubSeq(client'.products, 1, Len(client.products)) = client.products
       /\ LET r == client'.products[Len(client'.products)] IN
            IF hist'.settledOk
            THEN r = RespProduct(NewProduct(calls[k].req.body.f, now)).rec
            ELSE /\ r = [calls[k].data EXCEPT !["id"] = DateNowToString(now)]
                 /\ NonEmptyString(r["id"])]_vars

C13_Witness ==
  /\ hist.settled = "add"
  /\ ~hist.settledOk
  /\ Len(client.products) = Len(initialProducts) + 1
  /\ SubSeq(client.products, 1, Len(initialProducts)) = initialProducts
  /\ client.products[Len(client.products)] = [FullProduct EXCEPT !["id"] = DateNowToString(now)]

\* C14: updateProduct and deleteProduct change products in the step that
\* sends their one request, and the step in which that request settles,
\* however it settles, leaves products as they are and sends nothing.
C14_LocalChangeFirstNeverRolledBack ==
  [][\A k \in Slots :
       /\ Starts(k, "update") =>
            /\ client'.products = MapMerged(client.products, calls'[k].req.body.f["id"],
                                            calls'[k].req.body.upd)
            /\ hist'.requests = hist.requests + 1
       /\ Starts(k, "delete") =>
            /\ client'.products = FilterOut(client.products, calls'[k].req.body.f["id"])
            /\ hist'.requests = hist.requests + 1
       /\ (Settles(k, "update") \/ Settles(k, "delete")) =>
            /\ client'.products = client.products
            /\ hist'.requests = hist.requests
            /\ hist'.requests = hist'.made]_vars

C14_Witness ==
  /\ hist.settled = "update"
  /\ ~hist.settledOk
  /\ \A k \in Slots : calls[k].kind = "none"
  /\ hist.made = 1
  /\ Len(client.products) = 1
  /\ client.products[1] = [ServerRecord EXCEPT !["price"] = "9"]

\* C15: once the provider is mounted, whenever no persist effect is pending
\* the storage entry is the serialization of the current products.
C15_WriteThroughCache ==
  (client.pc # "unmounted" /\ ~client.persistPending) =>
    storage = StorageOf(JsonStringify(client.products))

C15_Witness ==
  /\ hist.settled = "add"
  /\ ~client.persistPending
  /\ Len(client.products) = 2
  /\ storage = StorageOf(JsonStringify(client.products))

\* C17: when config.json names a non-empty apiBase, the catalog fetch and
\* the requests of the calls in flight go to that address.
C17_Original_ConfiguredBaseUsed ==
  hist.configApiBase =>
    /\ hist.catalogTo = ConfiguredApiBase
    /\ client.pc = "done" => \A k \in Slots : calls[k].kind # "none" => calls[k].to = ConfiguredApiBase

\* the records of a list, whatever their order
Records(ps) == {ps[i] : i \in 1..Len(ps)}

\* every call has settled and every invocation has returned
Quiet ==
  /\ \A k \in Slots : calls[k].kind = "none" /\ inflight[k].pc = "idle"
  /\ ~client.persistPending

\* C20: once products was loaded from the server and every request of the
\* add, update and delete calls made since has completed, products and the
\* stored catalog hold the same records, also when calls were made without
\* waiting for earlier ones.
C20_Original_SingleClientConverges ==
  (client.loadedFromServer /\ hist.made > 0 /\ Quiet) =>
    Records(client.products) = Records(StoredCatalog(blob))

====
